---- MODULE Spec2Model ----
(***************************************************************************)
(* A model of the prediction ledger and scoring loop of src/bot.py.        *)
(*                                                                         *)
(* The PostgreSQL tables are the fields of one record, db.  Every helper   *)
(* of the "DATABASE FUNCTIONS" section opens its own connection, runs one  *)
(* statement and commits, so each helper is an operator from a database    *)
(* value to a database value, and one helper call is the unit of           *)
(* atomicity towards another process on the same database.                 *)
(*                                                                         *)
(* Inside one bot process everything runs on one asyncio event loop: code  *)
(* between two awaits is not interleaved with any other handler.  The      *)
(* handlers are therefore single actions up to their first await that      *)
(* matters, and so is one pass of the scoring loop of update_match_results *)
(* (ProcessMatch).  The same pass is also given helper call by helper call *)
(* (LoopNext .. MarkProcessed), for the specifications in which a second   *)
(* process shares the database or the process stops inside the pass.       *)
(*                                                                         *)
(* The football-data feed and the clock are inputs: the records a fetch    *)
(* returns are drawn from FeedRecords, the instants from Times.            *)
(***************************************************************************)
EXTENDS Integers, Sequences, FiniteSets, TLC

VARIABLES
    db,       \* the database: users, predictions, posted_matches, vote_data,
              \* processed_matches, weekly_stats
    now,      \* datetime.now(timezone.utc), in minutes
    chat,     \* per match: whether the vote message vote_data points to
              \* (current) and an older vote message of the match (stale)
              \* carry enabled buttons in the channel, where each task
              \* that runs post_match for the match is in it (post), how
              \* many "Match Starting Soon!" messages of the match are in
              \* the channel (reminders), and whether the match is in the
              \* list a running send_match_notifications has yet to go
              \* through (pending)
    poll,     \* per bot process: the position and locals of update_match_results
    last,     \* what the handler or poll step that ran last did and replied
    awards    \* history: how often the scoring loop called add_points for
              \* a (user, match) pair

vars == <<db, now, chat, poll, last, awards>>

-----------------------------------------------------------------------------
(* Bounds and inputs *)

Users == {"u1", "u2"}
Matches == {"m1", "m2"}
Procs == {"p1", "p2"}

\* kickoff (utcDate) of every match of the feed, minutes after the epoch of
\* the model
Kickoff == 120

\* the instants at which something runs: one in every region the code's
\* comparisons of now with the kickoff cut the time line into
Times == {Kickoff - 120, Kickoff - 60, Kickoff - 15, Kickoff - 10,
          Kickoff - 5, Kickoff, Kickoff + 120}

\* a user is not awarded more often than this for one match (stops the
\* count where the code would go on for ever)
MaxAwards == 2
MaxWeekTotal == 1

\* goals per side in a feed record
MaxGoals == 1

\* "Voting closes 10 minutes before kickoff"
LockWindow == 10

\* SQL NULL / Python None in an integer column
NoScore == -1

\* display names, as sequences of ASCII codes
Amy == <<65, 109, 121>>
amy == <<97, 109, 121>>
Bo  == <<66, 111>>
Bob == <<66, 111, 98>>
Zed == <<90, 101, 100>>

Names == {Amy, Bo}
RankNames == {Zed, Amy, Bo, amy, Bob}

Choices == {"home", "draw", "away"}

-----------------------------------------------------------------------------
(* The tables *)

NoPrediction == "none"

NewUser(username) ==
    [username |-> username, points |-> 0, current_streak |-> 0, best_streak |-> 0]

InitDb ==
    [users |-> <<>>,            \* user_id -> row
     predictions |-> {},        \* rows [user_id, match_id, prediction]
     posted_matches |-> <<>>,   \* match_id -> row
     vote_data |-> <<>>,        \* match_id -> row
     processed_matches |-> {},  \* match ids
     weekly_stats |-> <<>>]     \* user_id -> row of the current week

\* a variant of upsert_user that C34_PredictorsHaveRows tells from it: it
\* writes no row
upsert_user_none(d, user_id, username) == d

\* INSERT ... ON CONFLICT (user_id) DO UPDATE SET username
upsert_user(d, user_id, username) ==
    IF user_id \in DOMAIN d.users
    THEN [d EXCEPT !.users[user_id].username = username]
    ELSE [d EXCEPT !.users = @ @@ (user_id :> NewUser(username))]

HasPrediction(d, user_id, match_id) ==
    \E r \in d.predictions : r.user_id = user_id /\ r.match_id = match_id

\* INSERT ... ON CONFLICT (user_id, match_id) DO NOTHING
add_prediction(d, user_id, match_id, prediction) ==
    IF HasPrediction(d, user_id, match_id)
    THEN d
    ELSE [d EXCEPT !.predictions = @ \cup
             {[user_id |-> user_id, match_id |-> match_id, prediction |-> prediction]}]

\* variants of update_prediction that C4_SingleVote and C6_LastVoteWins tell
\* from it: one that inserts a row next to the old one, one that writes
\* nothing
update_prediction_insert(d, user_id, match_id, new_prediction) ==
    [d EXCEPT !.predictions = @ \cup
        {[user_id |-> user_id, match_id |-> match_id, prediction |-> new_prediction]}]

update_prediction_skip(d, user_id, match_id, new_prediction) == d

\* UPDATE predictions SET prediction = ... WHERE user_id = ... AND match_id = ...
update_prediction(d, user_id, match_id, new_prediction) ==
    [d EXCEPT !.predictions =
        {IF r.user_id = user_id /\ r.match_id = match_id
         THEN [r EXCEPT !.prediction = new_prediction]
         ELSE r : r \in @}]

\* SELECT prediction ...; fetchone()
get_user_prediction(d, user_id, match_id) ==
    IF HasPrediction(d, user_id, match_id)
    THEN (CHOOSE r \in d.predictions :
              r.user_id = user_id /\ r.match_id = match_id).prediction
    ELSE NoPrediction

\* DELETE FROM predictions WHERE user_id = ... AND match_id = ...
delete_prediction(d, user_id, match_id) ==
    [d EXCEPT !.predictions =
        {r \in @ : ~(r.user_id = user_id /\ r.match_id = match_id)}]

Max(a, b) == IF a >= b THEN a ELSE b

\* a variant of update_user_streak that C15_StreakUpdate tells from it: a
\* wrong prediction leaves the streak
update_user_streak_keep(d, user_id, is_correct) ==
    IF user_id \notin DOMAIN d.users \/ ~is_correct THEN d
    ELSE [d EXCEPT !.users[user_id] =
             [@ EXCEPT !.current_streak = @ + 1,
                       !.best_streak = Max(d.users[user_id].best_streak,
                                           d.users[user_id].current_streak + 1)]]

\* a variant of update_user_streak that C31_BestStreak tells from it: a
\* right prediction adds to current_streak and leaves best_streak alone
update_user_streak_nobest(d, user_id, is_correct) ==
    IF user_id \notin DOMAIN d.users THEN d
    ELSE IF is_correct
    THEN [d EXCEPT !.users[user_id].current_streak = @ + 1]
    ELSE [d EXCEPT !.users[user_id].current_streak = 0]

\* UPDATE users SET current_streak ..., best_streak ... WHERE user_id = ...
update_user_streak(d, user_id, is_correct) ==
    IF user_id \notin DOMAIN d.users THEN d
    ELSE IF is_correct
    THEN [d EXCEPT !.users[user_id] =
             [@ EXCEPT !.current_streak = @ + 1,
                       !.best_streak = Max(d.users[user_id].best_streak,
                                           d.users[user_id].current_streak + 1)]]
    ELSE [d EXCEPT !.users[user_id].current_streak = 0]

\* a variant of record_weekly_stat that C36_WeeklyStats tells from it: a
\* wrong prediction is not counted in total
record_weekly_stat_right(d, user_id, is_correct) ==
    IF ~is_correct THEN d
    ELSE IF user_id \in DOMAIN d.weekly_stats
    THEN [d EXCEPT !.weekly_stats[user_id] =
             [correct |-> @.correct + 1, total |-> @.total + 1]]
    ELSE [d EXCEPT !.weekly_stats = @ @@ (user_id :> [correct |-> 1, total |-> 1])]

\* INSERT INTO weekly_stats ... ON CONFLICT DO UPDATE; the instants of Times
\* lie in one week, so week_start is the same in every call
record_weekly_stat(d, user_id, is_correct) ==
    LET c == IF is_correct THEN 1 ELSE 0 IN
    IF user_id \in DOMAIN d.weekly_stats
    THEN [d EXCEPT !.weekly_stats[user_id] =
             [correct |-> @.correct + c, total |-> @.total + 1]]
    ELSE [d EXCEPT !.weekly_stats = @ @@ (user_id :> [correct |-> c, total |-> 1])]

\* a variant of add_points that C14_ScoringAwards tells from it: it adds
\* the amount twice
add_points_twice(d, user_id, points_to_add) ==
    IF user_id \in DOMAIN d.users
    THEN [d EXCEPT !.users[user_id].points = @ + 2 * points_to_add]
    ELSE d

\* UPDATE users SET points = points + ... WHERE user_id = ...
add_points(d, user_id, points_to_add) ==
    IF user_id \in DOMAIN d.users
    THEN [d EXCEPT !.users[user_id].points = @ + points_to_add]
    ELSE d

\* UPDATE users SET points = ... WHERE user_id = ...
set_user_points(d, user_id, points) ==
    IF user_id \in DOMAIN d.users
    THEN [d EXCEPT !.users[user_id].points = points]
    ELSE d

is_match_posted(d, match_id) == match_id \in DOMAIN d.posted_matches

\* INSERT INTO posted_matches ... ON CONFLICT DO NOTHING; the columns left
\* out take their defaults
mark_match_posted(d, match_id, match_time) ==
    IF match_id \in DOMAIN d.posted_matches
    THEN d
    ELSE [d EXCEPT !.posted_matches = @ @@ (match_id :>
             [match_time |-> match_time, home_score |-> NoScore,
              away_score |-> NoScore, status |-> "SCHEDULED",
              notification_sent |-> FALSE])]

\* UPDATE posted_matches SET home_score, away_score, status WHERE match_id = ...
update_match_score(d, match_id, home_score, away_score, status) ==
    IF match_id \in DOMAIN d.posted_matches
    THEN [d EXCEPT !.posted_matches[match_id] =
             [@ EXCEPT !.home_score = home_score, !.away_score = away_score,
                       !.status = status]]
    ELSE d

\* INSERT INTO vote_data ... ON CONFLICT (match_id) DO UPDATE SET votes_msg_id
save_vote_message(d, match_id, msg_id) ==
    IF match_id \in DOMAIN d.vote_data
    THEN [d EXCEPT !.vote_data[match_id].votes_msg_id = msg_id]
    ELSE [d EXCEPT !.vote_data = @ @@ (match_id :>
             [votes_msg_id |-> msg_id, live_predictions_msg_id |-> 0,
              buttons_disabled |-> FALSE])]

\* UPDATE vote_data SET live_predictions_msg_id = ... WHERE match_id = ...
save_live_predictions_message(d, match_id, msg_id) ==
    IF match_id \in DOMAIN d.vote_data
    THEN [d EXCEPT !.vote_data[match_id].live_predictions_msg_id = msg_id]
    ELSE d

\* UPDATE vote_data SET buttons_disabled = TRUE WHERE match_id = ...
disable_vote_buttons(d, match_id) ==
    IF match_id \in DOMAIN d.vote_data
    THEN [d EXCEPT !.vote_data[match_id].buttons_disabled = TRUE]
    ELSE d

\* a variant of is_match_processed that C1_IdempotentScoring tells from it:
\* it finds no match processed
is_match_processed_never(d, match_id) == FALSE

\* SELECT 1 FROM processed_matches WHERE match_id = ...
is_match_processed(d, match_id) == match_id \in d.processed_matches

\* INSERT INTO processed_matches ... ON CONFLICT DO NOTHING
mark_match_processed(d, match_id) ==
    [d EXCEPT !.processed_matches = @ \cup {match_id}]

-----------------------------------------------------------------------------
(* The feed *)

\* score.winner: the three values the feed documents, null ("NONE"), and
\* any other non-empty string ("UNKNOWN")
Winners == {"HOME_TEAM", "AWAY_TEAM", "DRAW", "NONE", "UNKNOWN"}
Goals == 0 .. MaxGoals

\* one match of data["matches"]: status, score.winner, score.fullTime
FeedRecords ==
    {r \in [status : {"SCHEDULED", "FINISHED"}, winner : Winners,
            home : Goals \cup {NoScore}, away : Goals \cup {NoScore}] :
        (r.home = NoScore) <=> (r.away = NoScore)}

\* result_map.get(winner, winner.lower())
result_map(winner) ==
    CASE winner = "HOME_TEAM" -> "home"
      [] winner = "AWAY_TEAM" -> "away"
      [] winner = "DRAW" -> "draw"
      [] OTHER -> "other"

\* if m.get("status") == "FINISHED": ... if winner: whether the record gets
\* an entry in results
InResults(r) == r.status = "FINISHED" /\ r.winner # "NONE"

\* results[match_id] for a record that gets an entry
ResultData(r) ==
    [result |-> result_map(r.winner), home_score |-> r.home, away_score |-> r.away]

\* the loop over data["matches"] of fetch_all_match_results; raw: match id ->
\* record
fetch_all_match_results(raw) ==
    [m \in {x \in DOMAIN raw : InResults(raw[x])} |-> ResultData(raw[m])]

-----------------------------------------------------------------------------
(* Replies *)

NoRaw == [status |-> "none", winner |-> "NONE", home |-> NoScore, away |-> NoScore]

\* op, user, match, choice: the call; reply: how it ended; existing: the
\* handler's existing_prediction; label: the choice the reply names; raw:
\* the feed record a scoring pass used; board: the rows get_leaderboard gave
Reply(op, user, match, choice, reply, existing) ==
    [op |-> op, user |-> user, match |-> match, choice |-> choice,
     reply |-> reply, existing |-> existing, label |-> "none", raw |-> NoRaw,
     board |-> <<>>]

NoLast == Reply("none", "none", "none", "none", "none", "none")

-----------------------------------------------------------------------------
(* Init *)

\* todo: the match ids of results the loop has not reached; rd: the entry
\* of results the loop is at.  The entries are inputs that nothing reads
\* before the loop reaches them, so each is drawn from the feed's records
\* when the loop reaches it.
IdlePoll == [pc |-> "idle", todo |-> {}, cur |-> "none", rd |-> ResultData(NoRaw),
             winners |-> {}, losers |-> {}, who |-> "none"]

\* the tasks that call post_match
Tasks == {"daily_fetch_matches", "forcefetch_command"}

\* no message of the match in the channel, no task inside post_match for it
NoMessage ==
    [current |-> FALSE, stale |-> FALSE, post |-> [t \in Tasks |-> "none"],
     reminders |-> 0, pending |-> FALSE]

Init ==
    /\ db = InitDb
    /\ now = Kickoff - 120
    /\ chat = [m \in Matches |-> NoMessage]
    /\ poll = [p \in Procs |-> IdlePoll]
    /\ last = NoLast
    /\ awards = [u \in Users |-> [m \in Matches |-> 0]]

\* the pcs at which update_match_results is suspended in an await (or not
\* running): only there does the event loop run another handler
AwaitPcs == {"idle", "fetch", "loop", "present"}

Quiescent(P) == \A p \in P : poll[p].pc \in AwaitPcs

-----------------------------------------------------------------------------
(* The clock *)

Tick ==
    /\ \E t \in Times : t > now /\ now' = t
    /\ last' = NoLast
    /\ UNCHANGED <<db, chat, poll, awards>>

-----------------------------------------------------------------------------
(* post_match *)

\* the id of the message a channel.send returned; the model tells the
\* message vote_data points to from older ones, and no more
MsgId == 1

\* channel.send(embed=embed, file=file, view=view): the new message carries
\* enabled buttons, and a message sent before stays in the channel
SendVoteMessage(c) == [c EXCEPT !.current = TRUE, !.stale = c.stale \/ c.current]

\* a variant of post_match that C17_RegisterIdempotent tells from it: a
\* match that is posted already is posted again and its row written anew
post_match_anew(P, m, fail) ==
    /\ Quiescent(P)
    /\ Kickoff >= now
    /\ fail = "none"
    /\ db' = [save_live_predictions_message(save_vote_message(db, m, MsgId), m, MsgId)
                 EXCEPT !.posted_matches =
                    [x \in DOMAIN @ \cup {m} |->
                        IF x = m
                        THEN [match_time |-> Kickoff, home_score |-> NoScore,
                              away_score |-> NoScore, status |-> "SCHEDULED",
                              notification_sent |-> FALSE]
                        ELSE @[x]]]
    /\ chat' = [chat EXCEPT ![m] = SendVoteMessage(@)]
    /\ last' = Reply("post", "none", m, "none", "posted", "none")
    /\ UNCHANGED <<now, poll, awards>>

\* post_match(match) for a match of the feed whose utcDate is Kickoff.
\* fail: which channel.send raises ("first", "second") or "none".
post_match(P, m, fail) ==
    /\ Quiescent(P)
    /\ LET d1 == save_vote_message(db, m, MsgId)
           d2 == save_live_predictions_message(d1, m, MsgId)
           d3 == mark_match_posted(d2, m, Kickoff)
       IN  CASE is_match_posted(db, m) ->
                  /\ UNCHANGED <<db, chat>>
                  /\ last' = Reply("post", "none", m, "none", "already posted", "none")
             [] Kickoff < now ->
                  /\ UNCHANGED <<db, chat>>
                  /\ last' = Reply("post", "none", m, "none", "started", "none")
             [] fail = "first" ->
                  /\ UNCHANGED <<db, chat>>
                  /\ last' = Reply("post", "none", m, "none", "failed", "none")
             [] fail = "second" ->
                  /\ db' = d1
                  /\ chat' = [chat EXCEPT ![m] = SendVoteMessage(@)]
                  /\ last' = Reply("post", "none", m, "none", "failed", "none")
             [] OTHER ->
                  /\ db' = d3
                  /\ chat' = [chat EXCEPT ![m] = SendVoteMessage(@)]
                  /\ last' = Reply("post", "none", m, "none", "posted", "none")
    /\ UNCHANGED <<now, poll, awards>>

-----------------------------------------------------------------------------
(* VoteButton.callback *)

\* a variant of VoteButton_callback that C21_FrozenOnceScored tells from it:
\* it does not compare now with kickoff_time
VoteButton_callback_open(P, u, m, c, name) ==
    /\ Quiescent(P)
    /\ chat[m].current \/ chat[m].stale
    /\ LET existing_prediction == get_user_prediction(db, u, m) IN
       IF existing_prediction = c
       THEN /\ db' = db
            /\ last' = [Reply("vote", u, m, c, "already", existing_prediction)
                           EXCEPT !.label = c]
       ELSE IF existing_prediction # NoPrediction
       THEN /\ db' = update_prediction(upsert_user(db, u, name), u, m, c)
            /\ last' = [Reply("vote", u, m, c, "changed", existing_prediction)
                           EXCEPT !.label = c]
       ELSE /\ db' = add_prediction(upsert_user(db, u, name), u, m, c)
            /\ last' = [Reply("vote", u, m, c, "voted", existing_prediction)
                           EXCEPT !.label = c]
    /\ UNCHANGED <<now, chat, poll, awards>>

\* a variant of VoteButton_callback that C33_RepeatIdempotent tells from it:
\* a press of the choice already held takes the prediction back
VoteButton_callback_toggle(P, u, m, c, name) ==
    /\ Quiescent(P)
    /\ chat[m].current \/ chat[m].stale
    /\ LET existing_prediction == get_user_prediction(db, u, m) IN
       IF now >= Kickoff
       THEN /\ db' = db
            /\ last' = Reply("vote", u, m, c, "ended", "none")
       ELSE IF existing_prediction # NoPrediction
       THEN IF existing_prediction = c
            THEN /\ db' = delete_prediction(db, u, m)
                 /\ last' = [Reply("vote", u, m, c, "already", existing_prediction)
                                EXCEPT !.label = c]
            ELSE /\ db' = update_prediction(upsert_user(db, u, name), u, m, c)
                 /\ last' = [Reply("vote", u, m, c, "changed", existing_prediction)
                                EXCEPT !.label = c]
       ELSE /\ db' = add_prediction(upsert_user(db, u, name), u, m, c)
            /\ last' = [Reply("vote", u, m, c, "voted", existing_prediction)
                           EXCEPT !.label = c]
    /\ UNCHANGED <<now, chat, poll, awards>>

\* a variant of VoteButton_callback that C32_LateVoteRejected tells from it:
\* a press at the instant of the kickoff is still let through
VoteButton_callback_late(P, u, m, c, name) ==
    /\ Quiescent(P)
    /\ chat[m].current \/ chat[m].stale
    /\ LET existing_prediction == get_user_prediction(db, u, m) IN
       IF now > Kickoff
       THEN /\ db' = db
            /\ last' = Reply("vote", u, m, c, "ended", "none")
       ELSE IF existing_prediction # NoPrediction
       THEN IF existing_prediction = c
            THEN /\ db' = db
                 /\ last' = [Reply("vote", u, m, c, "already", existing_prediction)
                                EXCEPT !.label = c]
            ELSE /\ db' = update_prediction(upsert_user(db, u, name), u, m, c)
                 /\ last' = [Reply("vote", u, m, c, "changed", existing_prediction)
                                EXCEPT !.label = c]
       ELSE /\ db' = add_prediction(upsert_user(db, u, name), u, m, c)
            /\ last' = [Reply("vote", u, m, c, "voted", existing_prediction)
                           EXCEPT !.label = c]
    /\ UNCHANGED <<now, chat, poll, awards>>

\* the press of button c of a vote message of match m by user u, whose
\* name is name at that moment; the button holds kickoff_time = Kickoff
VoteButton_callback(P, u, m, c, name) ==
    /\ Quiescent(P)
    /\ chat[m].current \/ chat[m].stale
    /\ LET existing_prediction == get_user_prediction(db, u, m) IN
       IF now >= Kickoff
       THEN /\ db' = db
            /\ last' = Reply("vote", u, m, c, "ended", "none")
       ELSE IF existing_prediction # NoPrediction
       THEN IF existing_prediction = c
            THEN /\ db' = db
                 /\ last' = [Reply("vote", u, m, c, "already", existing_prediction)
                                EXCEPT !.label = c]
            ELSE /\ db' = update_prediction(upsert_user(db, u, name), u, m, c)
                 /\ last' = [Reply("vote", u, m, c, "changed", existing_prediction)
                                EXCEPT !.label = c]
       ELSE /\ db' = add_prediction(upsert_user(db, u, name), u, m, c)
            /\ last' = [Reply("vote", u, m, c, "voted", existing_prediction)
                           EXCEPT !.label = c]
    /\ UNCHANGED <<now, chat, poll, awards>>

-----------------------------------------------------------------------------
(* unpick_command *)

\* get_match_info selects home_team, away_team, home_score, away_score,
\* status, competition: the row has no match_time, and match_info['match_time']
\* raises KeyError before anything is written
unpick_command(P, u, m) ==
    /\ Quiescent(P)
    /\ IF ~is_match_posted(db, m)
       THEN last' = Reply("unpick", u, m, "none", "not found", "none")
       ELSE last' = Reply("unpick", u, m, "none", "KeyError", "none")
    /\ UNCHANGED <<db, now, chat, poll, awards>>

-----------------------------------------------------------------------------
(* update_match_results: the helper calls of the loop body *)

SetPoll(p, r) == poll' = [poll EXCEPT ![p] = r]

\* SELECT COUNT(*) FROM posted_matches pm WHERE pm.status != 'FINISHED'
\* AND pm.match_time < NOW() AND NOT EXISTS (... processed_matches ...)
unprocessed_count(d) ==
    Cardinality({m \in DOMAIN d.posted_matches :
                    /\ d.posted_matches[m].status # "FINISHED"
                    /\ d.posted_matches[m].match_time < now
                    /\ m \notin d.processed_matches})

\* a variant of store_score that C35_FinishedStays tells from it: the score
\* is stored with the status left at its default
store_score_scheduled(d, m, rd) ==
    IF rd.home_score # NoScore /\ rd.away_score # NoScore
    THEN update_match_score(d, m, rd.home_score, rd.away_score, "SCHEDULED")
    ELSE d

\* if home_score is not None and away_score is not None: update_match_score
store_score(d, m, rd) ==
    IF rd.home_score # NoScore /\ rd.away_score # NoScore
    THEN update_match_score(d, m, rd.home_score, rd.away_score, "FINISHED")
    ELSE d

\* WHERE prediction = result with the match left out of the condition
select_winners_any(d, m, result) ==
    {r.user_id : r \in {x \in d.predictions : x.prediction = result}}

\* SELECT user_id FROM predictions WHERE match_id = ... AND prediction = result
select_winners(d, m, result) ==
    {r.user_id : r \in {x \in d.predictions : x.match_id = m /\ x.prediction = result}}

\* SELECT DISTINCT user_id FROM predictions WHERE match_id = ... AND
\* prediction != result
select_losers(d, m, result) ==
    {r.user_id : r \in {x \in d.predictions : x.match_id = m /\ x.prediction # result}}

\* the body of "for winner in winners"
award_winner(d, u) ==
    record_weekly_stat(update_user_streak(add_points(d, u, 1), u, TRUE), u, TRUE)

\* the body of "for loser in losers"
reset_loser(d, u) ==
    record_weekly_stat(update_user_streak(d, u, FALSE), u, FALSE)

RECURSIVE award_winners(_, _)
award_winners(d, W) ==
    IF W = {} THEN d
    ELSE LET u == CHOOSE x \in W : TRUE IN award_winners(award_winner(d, u), W \ {u})

RECURSIVE reset_losers(_, _)
reset_losers(d, L) ==
    IF L = {} THEN d
    ELSE LET u == CHOOSE x \in L : TRUE IN reset_losers(reset_loser(d, u), L \ {u})

\* the loop body from update_match_score to mark_match_processed, which has
\* no await in it
score_match(d, m, rd) ==
    LET d1 == store_score(d, m, rd)
        d2 == award_winners(d1, select_winners(d1, m, rd.result))
        d3 == reset_losers(d2, select_losers(d2, m, rd.result))
    IN  mark_match_processed(d3, m)

-----------------------------------------------------------------------------
(* update_match_results in one bot process *)

\* the task fires: with nothing pending it returns, else it starts the fetch
PollBegin(p) ==
    /\ poll[p].pc = "idle"
    /\ IF unprocessed_count(db) = 0
       THEN /\ last' = Reply("poll", "none", "none", "none", "nothing pending", "none")
            /\ UNCHANGED poll
       ELSE /\ last' = NoLast
            /\ SetPoll(p, [poll[p] EXCEPT !.pc = "fetch"])
    /\ UNCHANGED <<db, now, chat, awards>>

\* results = await fetch_all_match_results(): ids are the matches the feed
\* reports FINISHED with a winner, in the competitions that could be reached
Fetch(p, M) ==
    /\ poll[p].pc = "fetch"
    /\ \E ids \in SUBSET M : SetPoll(p, [poll[p] EXCEPT !.pc = "loop", !.todo = ids])
    /\ last' = NoLast
    /\ UNCHANGED <<db, now, chat, awards>>

\* one pass of the loop body over match m of results, up to the first await
\* after mark_match_processed
ProcessMatch(p) ==
    /\ poll[p].pc = "loop"
    /\ \E m \in poll[p].todo :
          IF is_match_processed(db, m)
          THEN /\ SetPoll(p, [poll[p] EXCEPT !.todo = @ \ {m}])
               /\ last' = Reply("process", "none", m, "none", "already processed", "none")
               /\ UNCHANGED <<db, awards>>
          ELSE \E raw \in {r \in FeedRecords : InResults(r)} :
               LET rd == fetch_all_match_results(m :> raw)[m]
                   W == select_winners(store_score(db, m, rd), m, rd.result)
               IN  /\ \A u \in W : awards[u][m] < MaxAwards
                   /\ db' = score_match(db, m, rd)
                   /\ awards' = [u \in Users |-> [x \in Matches |->
                                    IF x = m /\ u \in W THEN awards[u][x] + 1
                                    ELSE awards[u][x]]]
                   /\ SetPoll(p, [poll[p] EXCEPT !.pc = "present", !.cur = m, !.rd = rd])
                   /\ last' = [Reply("process", "none", m, "none", "scored", "none")
                                  EXCEPT !.raw = raw]
    /\ UNCHANGED <<now, chat>>

\* the edits of the vote message and of the live predictions message, and
\* the streak messages; ok: whether fetching and editing the vote message
\* succeeded, and only then disable_vote_buttons runs
Present(p, ok) ==
    /\ poll[p].pc = "present"
    /\ LET m == poll[p].cur
           edit == /\ ok
                   /\ m \in DOMAIN db.vote_data
                   /\ ~db.vote_data[m].buttons_disabled
       IN  /\ db' = IF edit THEN disable_vote_buttons(db, m) ELSE db
           /\ chat' = IF edit THEN [chat EXCEPT ![m].current = FALSE] ELSE chat
           /\ SetPoll(p, [poll[p] EXCEPT !.pc = "loop", !.cur = "none",
                                         !.rd = IdlePoll.rd, !.todo = @ \ {m}])
    /\ last' = NoLast
    /\ UNCHANGED <<now, awards>>

\* a variant of PollEnd that C19_UnreachableFeed tells from it: a cycle
\* that found nothing in the feed ends the task
PollEnd_stops(p) ==
    /\ poll[p].pc = "loop"
    /\ poll[p].todo = {}
    /\ SetPoll(p, [IdlePoll EXCEPT !.pc = "stopped"])
    /\ last' = NoLast
    /\ UNCHANGED <<db, now, chat, awards>>

\* the loop is over; the leaderboard message is sent or edited
PollEnd(p) ==
    /\ poll[p].pc = "loop"
    /\ poll[p].todo = {}
    /\ SetPoll(p, IdlePoll)
    /\ last' = NoLast
    /\ UNCHANGED <<db, now, chat, awards>>

-----------------------------------------------------------------------------
(* update_match_results, one step per helper call: what another process on *)
(* the same database, or a stop of this one, can fall between              *)

\* for match_id, result_data in results.items(): if is_match_processed: continue
LoopNext(p) ==
    /\ poll[p].pc = "loop"
    /\ \E m \in poll[p].todo :
          IF is_match_processed(db, m)
          THEN /\ SetPoll(p, [poll[p] EXCEPT !.todo = @ \ {m}])
               /\ last' = Reply("process", "none", m, "none", "already processed", "none")
          ELSE \E raw \in {r \in FeedRecords : InResults(r)} :
               /\ SetPoll(p, [poll[p] EXCEPT !.pc = "score", !.cur = m,
                                  !.rd = fetch_all_match_results(m :> raw)[m]])
               /\ last' = NoLast
    /\ UNCHANGED <<db, now, chat, awards>>

StoreScore(p) ==
    /\ poll[p].pc = "score"
    /\ db' = store_score(db, poll[p].cur, poll[p].rd)
    /\ SetPoll(p, [poll[p] EXCEPT !.pc = "winners"])
    /\ last' = NoLast
    /\ UNCHANGED <<now, chat, awards>>

SelectWinners(p) ==
    /\ poll[p].pc = "winners"
    /\ SetPoll(p, [poll[p] EXCEPT !.pc = "award",
                      !.winners = select_winners(db, poll[p].cur, poll[p].rd.result)])
    /\ last' = NoLast
    /\ UNCHANGED <<db, now, chat, awards>>

\* for winner in winners: add_points(winner['user_id'], 1)
AwardPoint(p) ==
    /\ poll[p].pc = "award"
    /\ \E u \in poll[p].winners :
          /\ awards[u][poll[p].cur] < MaxAwards
          /\ db' = add_points(db, u, 1)
          /\ awards' = [awards EXCEPT ![u][poll[p].cur] = @ + 1]
          /\ SetPoll(p, [poll[p] EXCEPT !.pc = "winner streak", !.who = u,
                                        !.winners = @ \ {u}])
    /\ last' = NoLast
    /\ UNCHANGED <<now, chat>>

\* update_user_streak(winner['user_id'], is_correct=True)
WinnerStreak(p) ==
    /\ poll[p].pc = "winner streak"
    /\ db' = update_user_streak(db, poll[p].who, TRUE)
    /\ SetPoll(p, [poll[p] EXCEPT !.pc = "winner week"])
    /\ last' = NoLast
    /\ UNCHANGED <<now, chat, awards>>

\* record_weekly_stat(winner['user_id'], is_correct=True)
WinnerWeek(p) ==
    /\ poll[p].pc = "winner week"
    /\ db' = record_weekly_stat(db, poll[p].who, TRUE)
    /\ SetPoll(p, [poll[p] EXCEPT !.pc = "award", !.who = "none"])
    /\ last' = NoLast
    /\ UNCHANGED <<now, chat, awards>>

SelectLosers(p) ==
    /\ poll[p].pc = "award"
    /\ poll[p].winners = {}
    /\ SetPoll(p, [poll[p] EXCEPT !.pc = "lose",
                      !.losers = select_losers(db, poll[p].cur, poll[p].rd.result)])
    /\ last' = NoLast
    /\ UNCHANGED <<db, now, chat, awards>>

\* for loser in losers: update_user_streak(loser['user_id'], is_correct=False)
LoserStreak(p) ==
    /\ poll[p].pc = "lose"
    /\ \E u \in poll[p].losers :
          /\ db' = update_user_streak(db, u, FALSE)
          /\ SetPoll(p, [poll[p] EXCEPT !.pc = "loser week", !.who = u,
                                        !.losers = @ \ {u}])
    /\ last' = NoLast
    /\ UNCHANGED <<now, chat, awards>>

\* record_weekly_stat(loser['user_id'], is_correct=False)
LoserWeek(p) ==
    /\ poll[p].pc = "loser week"
    /\ db' = record_weekly_stat(db, poll[p].who, FALSE)
    /\ SetPoll(p, [poll[p] EXCEPT !.pc = "lose", !.who = "none"])
    /\ last' = NoLast
    /\ UNCHANGED <<now, chat, awards>>

\* mark_match_processed(match_id)
MarkProcessed(p) ==
    /\ poll[p].pc = "lose"
    /\ poll[p].losers = {}
    /\ db' = mark_match_processed(db, poll[p].cur)
    /\ SetPoll(p, [poll[p] EXCEPT !.pc = "present"])
    /\ last' = Reply("process", "none", poll[p].cur, "none", "scored", "none")
    /\ UNCHANGED <<now, chat, awards>>

\* the process stops, or a helper raises (psycopg2.connect fails), while the
\* loop body is between two helper calls; the task starts afresh later
Abort(p) ==
    /\ poll[p].pc \notin AwaitPcs
    /\ \A u \in DOMAIN db.weekly_stats : db.weekly_stats[u].total < MaxWeekTotal
    /\ SetPoll(p, IdlePoll)
    /\ last' = Reply("abort", "none", poll[p].cur, "none", poll[p].pc, "none")
    /\ UNCHANGED <<db, now, chat, awards>>

-----------------------------------------------------------------------------
(* One bot process, one match of the feed *)

One == {"p1"}
M1 == {"m1"}
U1 == {"u1"}
PostFails == {"none", "first", "second"}

Next ==
    \/ Tick
    \/ \E m \in M1, fail \in PostFails : post_match(One, m, fail)
    \/ \E u \in Users, m \in M1, c \in Choices, name \in Names :
          VoteButton_callback(One, u, m, c, name)
    \/ \E u \in Users, m \in M1 : unpick_command(One, u, m)
    \/ PollBegin("p1")
    \/ Fetch("p1", M1)
    \/ ProcessMatch("p1")
    \/ \E ok \in BOOLEAN : Present("p1", ok)
    \/ PollEnd("p1")

Spec == Init /\ [][Next]_vars

-----------------------------------------------------------------------------
(* One bot process, two matches of the feed: m1 as above, and m2, which is *)
(* posted and scored and on which nobody votes                             *)

NextTwo ==
    \/ Tick
    \/ \E m \in M1, fail \in PostFails : post_match(One, m, fail)
    \/ \E m \in Matches \ M1 : post_match(One, m, "none")
    \/ \E u \in U1, m \in M1, c \in Choices, name \in Names :
          VoteButton_callback(One, u, m, c, name)
    \/ \E u \in U1, m \in M1 : unpick_command(One, u, m)
    \/ PollBegin("p1")
    \/ Fetch("p1", Matches)
    \/ ProcessMatch("p1")
    \/ \E ok \in BOOLEAN : Present("p1", ok)
    \/ PollEnd("p1")

SpecTwo == Init /\ [][NextTwo]_vars

-----------------------------------------------------------------------------
(* The loop body helper call by helper call *)

N1 == {Amy}

\* two bot processes on one database (DATABASE_URL), each with its own
\* update_match_results task
NextRace ==
    \/ Tick
    \/ \E m \in M1 : post_match(Procs, m, "none")
    \/ \E u \in U1, m \in M1, c \in Choices, name \in N1 :
          VoteButton_callback(Procs, u, m, c, name)
    \/ \E p \in Procs : PollBegin(p)
    \/ \E p \in Procs : Fetch(p, M1)
    \/ \E p \in Procs : LoopNext(p)
    \/ \E p \in Procs : StoreScore(p)
    \/ \E p \in Procs : SelectWinners(p)
    \/ \E p \in Procs : AwardPoint(p)
    \/ \E p \in Procs : WinnerStreak(p)
    \/ \E p \in Procs : WinnerWeek(p)
    \/ \E p \in Procs : SelectLosers(p)
    \/ \E p \in Procs : LoserStreak(p)
    \/ \E p \in Procs : LoserWeek(p)
    \/ \E p \in Procs : MarkProcessed(p)
    \/ \E p \in Procs, ok \in BOOLEAN : Present(p, ok)
    \/ \E p \in Procs : PollEnd(p)

SpecRace == Init /\ [][NextRace]_vars

\* one bot process that can stop inside the loop body
NextCrash ==
    \/ Tick
    \/ \E m \in M1 : post_match(One, m, "none")
    \/ \E u \in U1, m \in M1, c \in Choices, name \in N1 :
          VoteButton_callback(One, u, m, c, name)
    \/ PollBegin("p1")
    \/ Fetch("p1", M1)
    \/ LoopNext("p1")
    \/ StoreScore("p1")
    \/ SelectWinners("p1")
    \/ AwardPoint("p1")
    \/ WinnerStreak("p1")
    \/ WinnerWeek("p1")
    \/ SelectLosers("p1")
    \/ LoserStreak("p1")
    \/ LoserWeek("p1")
    \/ MarkProcessed("p1")
    \/ Abort("p1")
    \/ \E ok \in BOOLEAN : Present("p1", ok)
    \/ PollEnd("p1")

SpecCrash == Init /\ [][NextCrash]_vars

-----------------------------------------------------------------------------
(* The leaderboard *)

\* text order of the database the bot is connected to: by code point ("C"),
\* or by letters first and case second ("en_US")
Collations == {"C", "en_US"}

Lower(c) == IF c \in 65 .. 90 THEN c + 32 ELSE c
LowerName(s) == [i \in 1 .. Len(s) |-> Lower(s[i])]

LexLess(a, b) ==
    \E k \in 0 .. Len(a) :
        /\ k <= Len(b)
        /\ \A i \in 1 .. k : a[i] = b[i]
        /\ \/ k = Len(a) /\ k < Len(b)
           \/ k < Len(a) /\ k < Len(b) /\ a[k + 1] < b[k + 1]

CollateLess(coll, a, b) ==
    IF coll = "C"
    THEN LexLess(a, b)
    ELSE IF LowerName(a) # LowerName(b)
         THEN LexLess(LowerName(a), LowerName(b))
         ELSE LexLess(b, a)

Orderings(S) ==
    {s \in [1 .. Cardinality(S) -> S] :
        \A i, j \in 1 .. Cardinality(S) : i # j => s[i] # s[j]}

\* ORDER BY points DESC, username ASC
RowBefore(coll, x, y) ==
    \/ x.points > y.points
    \/ x.points = y.points /\ CollateLess(coll, x.username, y.username)

\* SELECT user_id, username, points FROM users ORDER BY ...: the row orders
\* the query can return
get_leaderboard(d, coll) ==
    {[i \in DOMAIN s |-> [user_id |-> s[i], username |-> d.users[s[i]].username,
                          points |-> d.users[s[i]].points]] :
        s \in {o \in Orderings(DOMAIN d.users) :
                 \A i, j \in DOMAIN o :
                    i < j => ~RowBefore(coll, d.users[o[j]], d.users[o[i]])}}

\* /leaderboard
leaderboard_command(coll) ==
    /\ \E leaderboard \in get_leaderboard(db, coll) :
          last' = [Reply("leaderboard", "none", "none", "none",
                         IF leaderboard = <<>> THEN "empty" ELSE "shown", "none")
                      EXCEPT !.board = leaderboard]
    /\ UNCHANGED <<db, now, chat, poll, awards>>

RankUsers == {"u1", "u2", "u3"}
RankPoints == {7, 10}

\* users tables as votes under these names and scoring leave them
InitRank ==
    /\ \E S \in SUBSET RankUsers :
          \E t \in [S -> {[NewUser(n) EXCEPT !.points = k] :
                            n \in RankNames, k \in RankPoints}] :
             db = [InitDb EXCEPT !.users = t]
    /\ now = Kickoff - 120
    /\ chat = [m \in Matches |-> NoMessage]
    /\ poll = [p \in Procs |-> IdlePoll]
    /\ last = NoLast
    /\ awards = [u \in Users |-> [m \in Matches |-> 0]]

NextRank == \E coll \in Collations : leaderboard_command(coll)

SpecRank == InitRank /\ [][NextRank]_vars

-----------------------------------------------------------------------------
(* Properties *)

Accepted == {"voted", "changed", "already"}

Rows(user_id, match_id) ==
    {r \in db.predictions : r.user_id = user_id /\ r.match_id = match_id}

\* the outcome the final scores give
ScoreOutcome(home, away) ==
    IF home > away THEN "home" ELSE IF home < away THEN "away" ELSE "draw"

\* C1: a match that is in processed_matches is never scored again: a later
\* pass over it reports it as already processed, calls add_points for nobody
\* and leaves every user's points as the first pass left them
C1_IdempotentScoring ==
    [][\A m \in Matches :
          m \in db.processed_matches =>
             /\ \A u \in Users : awards'[u][m] = awards[u][m]
             /\ (last'.op = "process" /\ last'.match = m) =>
                   /\ last'.reply = "already processed"
                   /\ db'.users = db.users]_vars

\* a second pass has met a processed match on which a user holds an award
C1_SecondPass ==
    /\ last.op = "process"
    /\ last.reply = "already processed"
    /\ \E u \in Users : awards[u][last.match] = 1

\* C2: with two pollers on one database no user is awarded twice for one
\* match
C2_NoDoubleAward ==
    \A u \in Users, m \in Matches : awards[u][m] <= 1

\* C3: when scoring stops inside the loop body, either nobody has been
\* awarded for the match or the match is in processed_matches, and nobody is
\* ever awarded a second time for it
C3_AllOrNothing ==
    /\ last.op = "abort" =>
          \/ \A u \in Users : awards[u][last.match] = 0
          \/ last.match \in db.processed_matches
    /\ \A u \in Users, m \in Matches : awards[u][m] < 2

\* C4: there is at most one prediction row per user and match, and exactly
\* one for the user and match of a vote that was accepted
C4_SingleVote ==
    /\ \A u \in Users, m \in Matches : Cardinality(Rows(u, m)) <= 1
    /\ (last.op = "vote" /\ last.reply \in Accepted) =>
          Cardinality(Rows(last.user, last.match)) = 1

\* a user has replaced their vote and holds one row
C4_Replaced ==
    /\ last.op = "vote"
    /\ last.reply = "changed"
    /\ Cardinality(Rows(last.user, last.match)) = 1

\* C5: a vote is rejected exactly when it is made at or after kickoff minus
\* the lock window of 10 minutes
C5_LockEnforced ==
    last.op = "vote" =>
       (last.reply = "ended" <=> now >= Kickoff - LockWindow)

\* C6 as stated: the reply to a replacing vote names the previous choice
C6_ReportsPrevious ==
    (last.op = "vote" /\ last.reply = "changed") => last.label = last.existing

\* C6: after an accepted vote the stored prediction is the choice of that
\* vote; a replacing vote overwrites a different earlier choice and its
\* reply names the new choice
C6_LastVoteWins ==
    (last.op = "vote" /\ last.reply \in Accepted) =>
       /\ get_user_prediction(db, last.user, last.match) = last.choice
       /\ last.reply = "changed" =>
             /\ last.existing \in Choices \ {last.choice}
             /\ last.label = last.choice

\* a replacing vote has been stored
C6_Overwritten ==
    /\ last.op = "vote"
    /\ last.reply = "changed"
    /\ last.existing # last.choice
    /\ get_user_prediction(db, last.user, last.match) = last.choice

\* C7: in the scenario, the attempt of u1 five minutes before kickoff is
\* rejected and leaves the prediction as it was, and the pass that scores a
\* draw awards u1, holding "draw", exactly once
C7_EndToEnd ==
    /\ (last.op = "vote" /\ last.user = "u1" /\ now = Kickoff - 5) =>
          last.reply = "ended"
    /\ (last.op = "process" /\ last.reply = "scored" /\ last.raw.winner = "DRAW"
           /\ get_user_prediction(db, "u1", last.match) = "draw") =>
          awards["u1"][last.match] = 1

\* C8: the outcome a finished match is scored with is the one its final
\* scores give: home, away, or draw for equal scores
C8_OutcomeFromScores ==
    (last.op = "process" /\ last.reply = "scored" /\ last.raw.home # NoScore) =>
       /\ last.raw.status = "FINISHED"
       /\ poll["p1"].rd.result = ScoreOutcome(last.raw.home, last.raw.away)

\* C9: a record whose winner field disagrees with its scores is not scored:
\* its match does not enter processed_matches on its account
C9_AmbiguousNotScored ==
    (last.op = "process" /\ last.raw.status = "FINISHED"
        /\ last.raw.home # NoScore
        /\ result_map(last.raw.winner) # ScoreOutcome(last.raw.home, last.raw.away)) =>
       /\ last.reply # "scored"
       /\ last.match \notin db.processed_matches

\* C10: the board is in descending order of points, and rows with equal
\* points are in ascending order of their names without regard to case
C10_RankOrder ==
    last.op = "leaderboard" =>
       \A i, j \in DOMAIN last.board :
          i < j =>
             /\ last.board[i].points >= last.board[j].points
             /\ last.board[i].points = last.board[j].points =>
                   ~LexLess(LowerName(last.board[j].username),
                            LowerName(last.board[i].username))

\* C11: every prediction row is for a match that is in posted_matches
C11_RegisteredOnly ==
    \A r \in db.predictions : r.match_id \in DOMAIN db.posted_matches

\* C12: an unpick on a posted match before the lock instant, by a user who
\* has a prediction on it, completes and deletes that row and nothing else:
\* the other rows and the users table stay as they were
C12_UnpickDeletes ==
    [][(/\ last'.op = "unpick"
        /\ is_match_posted(db, last'.match)
        /\ now < Kickoff - LockWindow
        /\ HasPrediction(db, last'.user, last'.match)) =>
          /\ last'.reply = "deleted"
          /\ db'.predictions =
                {r \in db.predictions :
                    ~(r.user_id = last'.user /\ r.match_id = last'.match)}
          /\ db'.users = db.users]_vars

\* C13: an unpick on a posted match at or after the lock instant is rejected
\* as voting closed, one by a user without a prediction as no prediction,
\* and neither deletes a row
C13_UnpickRejections ==
    [][(last'.op = "unpick" /\ is_match_posted(db, last'.match)) =>
          /\ now >= Kickoff - LockWindow =>
                /\ last'.reply = "voting closed"
                /\ db'.predictions = db.predictions
          /\ (now < Kickoff - LockWindow
                 /\ ~HasPrediction(db, last'.user, last'.match)) =>
                /\ last'.reply = "no prediction"
                /\ db'.predictions = db.predictions]_vars

\* C14: the pass that scores a match adds exactly 1 to the points of each
\* user whose prediction on it is the outcome, and leaves the points of
\* every other user as they were
C14_ScoringAwards ==
    [][(last'.op = "process" /\ last'.reply = "scored") =>
          /\ DOMAIN db'.users = DOMAIN db.users
          /\ \A u \in DOMAIN db.users :
                db'.users[u].points = db.users[u].points +
                   (IF get_user_prediction(db, u, last'.match)
                          = result_map(last'.raw.winner)
                    THEN 1 ELSE 0)]_vars

\* a pass has scored a match on which one user was right and another wrong
C14_Awarded ==
    /\ last.op = "process"
    /\ last.reply = "scored"
    /\ \E u, v \in DOMAIN db.users :
          /\ get_user_prediction(db, u, last.match) = result_map(last.raw.winner)
          /\ db.users[u].points = 1
          /\ get_user_prediction(db, v, last.match) \in
                Choices \ {result_map(last.raw.winner)}
          /\ db.users[v].points = 0

-----------------------------------------------------------------------------
(* One bot process, two matches, votes on both: a user's streak from one   *)
(* match meets the scoring of the other                                    *)

NextStreak ==
    \/ Tick
    \/ \E m \in Matches : post_match(One, m, "none")
    \/ \E u \in U1, m \in Matches, c \in Choices, name \in N1 :
          VoteButton_callback(One, u, m, c, name)
    \/ PollBegin("p1")
    \/ Fetch("p1", Matches)
    \/ ProcessMatch("p1")
    \/ \E ok \in BOOLEAN : Present("p1", ok)
    \/ PollEnd("p1")

SpecStreak == Init /\ [][NextStreak]_vars

\* C15: the pass that scores a match adds one to current_streak of each
\* user whose prediction on it is the outcome, sets current_streak of each
\* user with another prediction on it to zero, and leaves current_streak of
\* users without a prediction on it as it was
C15_StreakUpdate ==
    [][(last'.op = "process" /\ last'.reply = "scored") =>
          \A u \in DOMAIN db.users :
             LET p == get_user_prediction(db, u, last'.match) IN
             db'.users[u].current_streak =
                IF p = result_map(last'.raw.winner)
                THEN db.users[u].current_streak + 1
                ELSE IF p # NoPrediction THEN 0
                ELSE db.users[u].current_streak]_vars

\* a user who was on a streak of one from another match has been wrong on
\* the match just scored, and the streak is back at zero
C15_StreakReset ==
    /\ last.op = "process"
    /\ last.reply = "scored"
    /\ \E u \in DOMAIN db.users :
          /\ get_user_prediction(db, u, last.match) \in
                Choices \ {result_map(last.raw.winner)}
          /\ \E m \in Matches \ {last.match} : awards[u][m] = 1
          /\ db.users[u].best_streak = 1
          /\ db.users[u].current_streak = 0

-----------------------------------------------------------------------------
(* /backfillscores *)

\* what the feed can say about a match whose kickoff is Kickoff when asked
\* at instant t: it is not FINISHED before it has begun
FeedAt(t) ==
    IF t > Kickoff THEN FeedRecords
    ELSE {r \in FeedRecords : r.status = "SCHEDULED"}

\* for match_id, result_data in results.items():
\*     if result_data.get('home_score') is not None: update_match_score(...)
RECURSIVE backfill_scores(_, _)
backfill_scores(d, results) ==
    IF DOMAIN results = {} THEN d
    ELSE LET m == CHOOSE x \in DOMAIN results : TRUE
             rest == [x \in DOMAIN results \ {m} |-> results[x]]
             d1 == IF results[m].home_score # NoScore
                   THEN update_match_score(d, m, results[m].home_score,
                                           results[m].away_score, "FINISHED")
                   ELSE d
         IN  backfill_scores(d1, rest)

\* backfillscores_command by an administrator; M: the matches of the feed
backfillscores_command(P, M) ==
    /\ Quiescent(P)
    /\ \E raw \in [M -> FeedAt(now)] :
          db' = backfill_scores(db, fetch_all_match_results(raw))
    /\ last' = Reply("backfill", "none", "none", "none", "updated", "none")
    /\ UNCHANGED <<now, chat, poll, awards>>

\* one bot process, one match, and an administrator
NextAdmin ==
    \/ Tick
    \/ \E m \in M1 : post_match(One, m, "none")
    \/ \E u \in U1, m \in M1, c \in Choices, name \in N1 :
          VoteButton_callback(One, u, m, c, name)
    \/ PollBegin("p1")
    \/ Fetch("p1", M1)
    \/ ProcessMatch("p1")
    \/ \E ok \in BOOLEAN : Present("p1", ok)
    \/ PollEnd("p1")
    \/ backfillscores_command(One, M1)

SpecAdmin == Init /\ [][NextAdmin]_vars

\* C16: once a match is stored as FINISHED with a score, no step changes
\* its stored score or status
C16_FinishedImmutable ==
    [][\A m \in DOMAIN db.posted_matches :
          (db.posted_matches[m].status = "FINISHED"
              /\ db.posted_matches[m].home_score # NoScore) =>
             /\ db'.posted_matches[m].home_score = db.posted_matches[m].home_score
             /\ db'.posted_matches[m].away_score = db.posted_matches[m].away_score
             /\ db'.posted_matches[m].status = "FINISHED"]_vars

-----------------------------------------------------------------------------
(* send_match_notifications *)

\* SELECT u.user_id, u.username FROM users u WHERE NOT EXISTS (SELECT 1 FROM
\* predictions p WHERE p.user_id = u.user_id AND p.match_id = ...)
non_voters(d, match_id) ==
    {u \in DOMAIN d.users : ~HasPrediction(d, u, match_id)}

\* a variant of mark_notification_sent that C37_RemindedOnce tells from it:
\* the mark is not written
mark_notification_sent_none(d, match_id) == d

\* UPDATE posted_matches SET notification_sent = TRUE WHERE match_id = ...
mark_notification_sent(d, match_id) ==
    IF match_id \in DOMAIN d.posted_matches
    THEN [d EXCEPT !.posted_matches[match_id].notification_sent = TRUE]
    ELSE d

\* WHERE match_time BETWEEN now + 10 minutes AND now + 15 minutes
\* AND notification_sent = FALSE AND status = 'SCHEDULED'
get_upcoming_matches_for_notification(d) ==
    {m \in DOMAIN d.posted_matches :
        /\ d.posted_matches[m].match_time >= now + 10
        /\ d.posted_matches[m].match_time <= now + 15
        /\ ~d.posted_matches[m].notification_sent
        /\ d.posted_matches[m].status = "SCHEDULED"}

RECURSIVE mark_notifications(_, _)
mark_notifications(d, S) ==
    IF S = {} THEN d
    ELSE LET m == CHOOSE x \in S : TRUE
         IN  mark_notifications(mark_notification_sent(d, m), S \ {m})

\* the task with at least one match in the window; a channel.send that
\* raises is caught, and mark_notification_sent runs either way
send_match_notifications ==
    /\ get_upcoming_matches_for_notification(db) # {}
    /\ db' = mark_notifications(db, get_upcoming_matches_for_notification(db))
    /\ chat' = [m \in Matches |->
                  IF m \in get_upcoming_matches_for_notification(db)
                     /\ non_voters(db, m) # {}
                  THEN [chat[m] EXCEPT !.reminders = @ + 1] ELSE chat[m]]
    /\ last' = Reply("notify", "none", "none", "none", "sent", "none")
    /\ UNCHANGED <<now, poll, awards>>

\* one bot process whose matches are posted again and again
NextPost ==
    \/ Tick
    \/ \E m \in Matches, fail \in PostFails : post_match(One, m, fail)
    \/ \E u \in U1, m \in M1, c \in Choices, name \in N1 :
          VoteButton_callback(One, u, m, c, name)
    \/ send_match_notifications
    \/ PollBegin("p1")
    \/ Fetch("p1", M1)
    \/ ProcessMatch("p1")
    \/ \E ok \in BOOLEAN : Present("p1", ok)
    \/ PollEnd("p1")

SpecPost == Init /\ [][NextPost]_vars

\* C17: a post_match for a match that is in posted_matches changes no row
\* of posted_matches: kickoff, status, scores and the notification mark of
\* the match stay as they were, and the call says so
C17_RegisterIdempotent ==
    [][(last'.op = "post" /\ is_match_posted(db, last'.match)) =>
          /\ db'.posted_matches = db.posted_matches
          /\ last'.reply = "already posted"]_vars

\* a match whose row has moved on since it was posted has been posted again
C17_PostedAgain ==
    /\ last.op = "post"
    /\ last.reply = "already posted"
    /\ db.posted_matches[last.match].notification_sent
    /\ now <= Kickoff

-----------------------------------------------------------------------------
(* The poll task kept running: tasks.loop fires update_match_results every *)
(* 10 minutes and each of its steps returns, the clock moves on, and a     *)
(* feed that is asked again and again reports the finished match in the    *)
(* end                                                                     *)

\* a fetch in which the feed is reached and reports every match of M as
\* FINISHED with a winner
FetchReported(p, M) ==
    /\ Fetch(p, M)
    /\ poll'[p].todo = M

NextLive ==
    \/ Tick
    \/ \E m \in M1 : post_match(One, m, "none")
    \/ \E u \in U1, m \in M1, c \in Choices, name \in N1 :
          VoteButton_callback(One, u, m, c, name)
    \/ PollBegin("p1")
    \/ Fetch("p1", M1)
    \/ ProcessMatch("p1")
    \/ \E ok \in BOOLEAN : Present("p1", ok)
    \/ PollEnd("p1")
    \/ backfillscores_command(One, M1)

SpecLive ==
    /\ Init
    /\ [][NextLive]_vars
    /\ WF_vars(Tick)
    /\ WF_vars(PollBegin("p1"))
    /\ SF_vars(FetchReported("p1", M1))
    /\ WF_vars(ProcessMatch("p1"))
    /\ WF_vars(\E ok \in BOOLEAN : Present("p1", ok))
    /\ WF_vars(PollEnd("p1"))

\* C18: a posted match is in processed_matches in the end
C18_EventuallyScored ==
    \A m \in M1 : is_match_posted(db, m) ~> is_match_processed(db, m)

-----------------------------------------------------------------------------
(* The poll task kept running, two matches, no administrator *)

NextRetry ==
    \/ Tick
    \/ \E m \in Matches : post_match(One, m, "none")
    \/ \E u \in U1, m \in M1, c \in Choices, name \in N1 :
          VoteButton_callback(One, u, m, c, name)
    \/ PollBegin("p1")
    \/ Fetch("p1", Matches)
    \/ ProcessMatch("p1")
    \/ \E ok \in BOOLEAN : Present("p1", ok)
    \/ PollEnd("p1")

SpecRetry ==
    /\ Init
    /\ [][NextRetry]_vars
    /\ WF_vars(Tick)
    /\ WF_vars(PollBegin("p1"))
    /\ SF_vars(FetchReported("p1", Matches))
    /\ WF_vars(ProcessMatch("p1"))
    /\ WF_vars(\E ok \in BOOLEAN : Present("p1", ok))
    /\ WF_vars(PollEnd("p1"))

C20_PresentationIndependent ==
    /\ (last.op = "post" /\ last.reply \in {"posted", "failed"}) =>
          is_match_posted(db, last.match)
    /\ (last.op = "vote" /\ last.reply \in Accepted) =>
          get_user_prediction(db, last.user, last.match) = last.choice
    /\ (last.op = "process" /\ last.reply = "scored") =>
          is_match_processed(db, last.match)

\* C21: once a match is in processed_matches no step creates, changes or
\* deletes a prediction on it, and a vote on it is answered as ended
C21_FrozenOnceScored ==
    [][\A m \in Matches :
          is_match_processed(db, m) =>
             /\ {r \in db'.predictions : r.match_id = m}
                   = {r \in db.predictions : r.match_id = m}
             /\ (last'.op = "vote" /\ last'.match = m) => last'.reply = "ended"]_vars

\* a user with a prediction on a processed match has pressed a button for
\* another choice
C21_LateVote ==
    /\ last.op = "vote"
    /\ is_match_processed(db, last.match)
    /\ get_user_prediction(db, last.user, last.match) \in Choices \ {last.choice}

-----------------------------------------------------------------------------
(* get_predictions_for_match *)

\* SELECT p.prediction, u.username FROM predictions p JOIN users u ...
\* WHERE p.match_id = ...; votes[row['prediction']].add(row['username']):
\* each group is a set of usernames
get_predictions_for_match(d, match_id) ==
    [c \in Choices |->
        {d.users[r.user_id].username :
            r \in {x \in d.predictions :
                     /\ x.match_id = match_id
                     /\ x.prediction = c
                     /\ x.user_id \in DOMAIN d.users}}]

\* len(votes['home']) + len(votes['draw']) + len(votes['away'])
total_votes(d, match_id) ==
    LET votes == get_predictions_for_match(d, match_id)
    IN  Cardinality(votes["home"]) + Cardinality(votes["draw"])
           + Cardinality(votes["away"])

\* C22: for every match the sizes of the home, draw and away groups add up
\* to the number of prediction rows on the match, and each group has as
\* many entries as there are rows with its choice
C22_GroupsPartitionVoters ==
    \A m \in Matches :
       /\ total_votes(db, m) = Cardinality({r \in db.predictions : r.match_id = m})
       /\ \A c \in Choices :
             Cardinality(get_predictions_for_match(db, m)[c]) =
                Cardinality({r \in db.predictions :
                                r.match_id = m /\ r.prediction = c})

\* C23: the result a scoring pass compares the predictions with is one of
\* home, draw, away
C23_ThreeOutcomes ==
    (last.op = "process" /\ last.reply = "scored") =>
       /\ result_map(last.raw.winner) \in Choices
       /\ poll["p1"].rd.result \in Choices


\* ---- administrator point commands ----

MaxPoints == 2

\* the points argument of /setpoints and /addpoints: any integer
PointArgs == (0 - MaxPoints) .. MaxPoints

\* /setpoints user points; admin: guild_permissions.administrator
setpoints_command(P, admin, user_id, name, points) ==
    /\ Quiescent(P)
    /\ IF ~admin
       THEN /\ last' = Reply("setpoints", user_id, "none", "none", "admin only", "none")
            /\ UNCHANGED db
       ELSE /\ db' = set_user_points(upsert_user(db, user_id, name), user_id, points)
            /\ last' = Reply("setpoints", user_id, "none", "none", "set", "none")
    /\ UNCHANGED <<now, chat, poll, awards>>

\* /addpoints user points
addpoints_command(P, admin, user_id, name, points) ==
    /\ Quiescent(P)
    /\ IF ~admin
       THEN /\ last' = Reply("addpoints", user_id, "none", "none", "admin only", "none")
            /\ UNCHANGED db
       ELSE LET d == add_points(upsert_user(db, user_id, name), user_id, points)
            IN  /\ d.users[user_id].points \in PointArgs
                /\ db' = d
                /\ last' = Reply("addpoints", user_id, "none", "none", "added", "none")
    /\ UNCHANGED <<now, chat, poll, awards>>

\* one bot process, one match, one member's votes, the leaderboard and an
\* administrator who sets and adds points
NextPoints ==
    \/ Tick
    \/ \E m \in M1 : post_match(One, m, "none")
    \/ \E u \in U1, m \in M1, c \in Choices, name \in N1 :
          VoteButton_callback(One, u, m, c, name)
    \/ PollBegin("p1")
    \/ Fetch("p1", M1)
    \/ ProcessMatch("p1")
    \/ \E ok \in BOOLEAN : Present("p1", ok)
    \/ PollEnd("p1")
    \/ \E admin \in BOOLEAN, u \in Users, points \in PointArgs :
          setpoints_command(One, admin, u, Amy, points)
    \/ \E admin \in BOOLEAN, u \in Users, points \in PointArgs :
          addpoints_command(One, admin, u, Amy, points)
    \/ leaderboard_command("C")

SpecPoints == Init /\ [][NextPoints]_vars

\* C24: in every reachable state every user's points, current streak and
\* best streak are non-negative, also after /setpoints and /addpoints
C24_NonNegative ==
    \A u \in DOMAIN db.users :
       /\ db.users[u].points >= 0
       /\ db.users[u].current_streak >= 0
       /\ db.users[u].best_streak >= 0

\* C25: while no user has voted, /leaderboard answers with no rows, also
\* after administrator point commands
C25_EmptyBeforeVotes ==
    (last.op = "leaderboard" /\ db.predictions = {}) => last.board = <<>>

\* C26: every processed match that is registered has status FINISHED in
\* posted_matches; no match is marked processed while still SCHEDULED
C26_ProcessedIsFinished ==
    \A m \in Matches :
       (is_match_processed(db, m) /\ is_match_posted(db, m)) =>
          db.posted_matches[m].status = "FINISHED"

\* the matches the fetch of the running cycle of p1 brought
Reported == poll["p1"].todo \cup {poll["p1"].cur}

\* C27: a step of the poll task leaves a match that the feed did not report
\* as FINISHED with a winner as it was: its posted_matches row (status and
\* scores), its processed_matches entry, the points awarded for it, and the
\* points and streaks of the users whose predictions are all on such matches
C27_UnreportedUntouched ==
    [][poll' # poll =>
          \A m \in Matches \ Reported :
             /\ is_match_posted(db', m) <=> is_match_posted(db, m)
             /\ is_match_posted(db, m) =>
                   db'.posted_matches[m] = db.posted_matches[m]
             /\ is_match_processed(db', m) <=> is_match_processed(db, m)
             /\ \A u \in Users : awards'[u][m] = awards[u][m]
             /\ \A u \in DOMAIN db.users :
                   (/\ HasPrediction(db, u, m)
                    /\ \A r \in db.predictions :
                          r.user_id = u => r.match_id \notin Reported)
                   => db'.users[u] = db.users[u]]_vars

\* a pass has scored one match while another posted match, past its kickoff
\* and with a prediction on it, was not reported and is not processed
C27_OtherMatchScored ==
    /\ last.op = "process"
    /\ last.reply = "scored"
    /\ \E m \in Matches \ Reported :
          /\ is_match_posted(db, m)
          /\ db.posted_matches[m].match_time < now
          /\ ~is_match_processed(db, m)
          /\ \E u \in Users : HasPrediction(db, u, m)

\* C28: after a press of a vote button by u under the name n before the
\* kickoff, also one for the choice u already holds, users.username of u
\* is n
C28_LastNameWins ==
    [][\A u \in Users, m \in M1, c \in Choices, name \in Names :
          (VoteButton_callback(One, u, m, c, name) /\ now < Kickoff) =>
             /\ u \in DOMAIN db'.users
             /\ db'.users[u].username = name]_vars

\* C29: whenever no scoring pass is under way, there is one outcome per
\* processed match such that the points of every user are the number of
\* processed matches on which the user's stored prediction is that outcome
C29_PointsConserved ==
    (\A p \in Procs : poll[p].pc = "idle") =>
       \E outcome \in [Matches -> Choices \cup {"other"}] :
          \A u \in Users :
             (IF u \in DOMAIN db.users THEN db.users[u].points ELSE 0)
                = Cardinality({m \in db.processed_matches :
                                  get_user_prediction(db, u, m) = outcome[m]})

-----------------------------------------------------------------------------
(* post_match await by await: daily_fetch_matches and forcefetch_command   *)
(* are tasks of one event loop, and each await of post_match lets the      *)
(* other run                                                               *)

SetPost(t, m, pc) == chat' = [chat EXCEPT ![m].post[t] = pc]

\* from the entry of post_match to its first channel.send being under way
PostCheck(t, m) ==
    /\ chat[m].post[t] = "none"
    /\ CASE is_match_posted(db, m) ->
              /\ UNCHANGED chat
              /\ last' = Reply("post", t, m, "none", "already posted", "none")
         [] Kickoff < now ->
              /\ UNCHANGED chat
              /\ last' = Reply("post", t, m, "none", "started", "none")
         [] OTHER ->
              /\ SetPost(t, m, "send vote")
              /\ last' = NoLast
    /\ UNCHANGED <<db, now, poll, awards>>

\* match_message = await channel.send(embed=embed, file=file, view=view)
\* returns; save_vote_message; the second channel.send is under way
PostVote(t, m) ==
    /\ chat[m].post[t] = "send vote"
    /\ db' = save_vote_message(db, m, MsgId)
    /\ chat' = [chat EXCEPT ![m] = [SendVoteMessage(@) EXCEPT !.post[t] = "send live"]]
    /\ last' = NoLast
    /\ UNCHANGED <<now, poll, awards>>

\* live_message = await channel.send(embed=live_embed) returns;
\* save_live_predictions_message; mark_match_posted
PostLive(t, m) ==
    /\ chat[m].post[t] = "send live"
    /\ db' = mark_match_posted(save_live_predictions_message(db, m, MsgId), m, Kickoff)
    /\ SetPost(t, m, "none")
    /\ last' = Reply("post", t, m, "none", "posted", "none")
    /\ UNCHANGED <<now, poll, awards>>

\* one bot process whose two posting tasks run at the same time, one match
NextAnnounce ==
    \/ Tick
    \/ \E t \in Tasks, m \in M1 : PostCheck(t, m)
    \/ \E t \in Tasks, m \in M1 : PostVote(t, m)
    \/ \E t \in Tasks, m \in M1 : PostLive(t, m)
    \/ \E u \in U1, m \in M1, c \in Choices, name \in N1 :
          VoteButton_callback(One, u, m, c, name)
    \/ PollBegin("p1")
    \/ Fetch("p1", M1)
    \/ ProcessMatch("p1")
    \/ \E ok \in BOOLEAN : Present("p1", ok)
    \/ PollEnd("p1")

SpecAnnounce == Init /\ [][NextAnnounce]_vars

\* C30: when two tasks run post_match for the same match at the same time,
\* at most one vote message with enabled buttons is in the channel for the
\* match, and it is the one vote_data points to
C30_AnnouncedOnce ==
    \A m \in Matches : ~(chat[m].current /\ chat[m].stale)

\* C31: in every state best_streak of each user is at least current_streak,
\* and no step lowers best_streak of a user
C31_BestStreak ==
    /\ [](\A u \in DOMAIN db.users :
             db.users[u].best_streak >= db.users[u].current_streak)
    /\ [][\A u \in DOMAIN db.users :
             /\ u \in DOMAIN db'.users
             /\ db'.users[u].best_streak >= db.users[u].best_streak]_vars

\* a user is on a streak of two, the longest so far
C31_StreakOfTwo ==
    \E u \in DOMAIN db.users :
       db.users[u].current_streak = 2 /\ db.users[u].best_streak = 2

\* C32: a press of a vote button at or after the kickoff is answered
\* "ended" and writes nothing: users and predictions are as before
C32_LateVoteRejected ==
    [][\A u \in Users, m \in M1, c \in Choices, name \in Names :
          (VoteButton_callback(One, u, m, c, name) /\ now >= Kickoff) =>
             /\ last'.reply = "ended"
             /\ db'.users = db.users
             /\ db'.predictions = db.predictions]_vars

\* a user without a row has pressed a button at the very instant of the
\* kickoff and was turned away
C32_PressAtKickoff ==
    /\ last.op = "vote"
    /\ last.reply = "ended"
    /\ now = Kickoff
    /\ last.user \notin DOMAIN db.users

\* C33: a press by u of the choice u already holds on m leaves the
\* predictions table as it was, so that voting a choice twice gives the
\* table that voting it once gives
C33_RepeatIdempotent ==
    [][\A u \in Users, m \in M1, c \in Choices, name \in Names :
          (/\ VoteButton_callback(One, u, m, c, name)
           /\ [user_id |-> u, match_id |-> m, prediction |-> c] \in db.predictions)
          => db'.predictions = db.predictions]_vars

\* a user has pressed the choice they hold, before the kickoff, and holds
\* the one row for it
C33_PressedAgain ==
    /\ last.op = "vote"
    /\ last.reply = "already"
    /\ last.existing = last.choice
    /\ Rows(last.user, last.match)
          = {[user_id |-> last.user, match_id |-> last.match,
              prediction |-> last.choice]}

\* C34: in every state the user of every prediction has a row in users, the
\* user's name stands in the group of the per-match tally for the choice,
\* and every user the scoring loop awarded has a row with the point on it
C34_PredictorsHaveRows ==
    /\ \A r \in db.predictions :
          /\ r.user_id \in DOMAIN db.users
          /\ db.users[r.user_id].username
                \in get_predictions_for_match(db, r.match_id)[r.prediction]
    /\ \A u \in Users, m \in Matches :
          awards[u][m] > 0 => (u \in DOMAIN db.users /\ db.users[u].points >= 1)

\* a match has been scored and a user with a right prediction on it holds
\* the point
C34_AwardLanded ==
    \E r \in db.predictions :
       /\ is_match_processed(db, r.match_id)
       /\ awards[r.user_id][r.match_id] = 1
       /\ r.user_id \in DOMAIN db.users
       /\ db.users[r.user_id].points = 1

-----------------------------------------------------------------------------
(* repostmatches_command *)

\* SELECT ... FROM posted_matches WHERE match_time > now AND status != 'FINISHED'
upcoming_posted(d) ==
    {m \in DOMAIN d.posted_matches :
        /\ d.posted_matches[m].match_time > now
        /\ d.posted_matches[m].status # "FINISHED"}

\* the body of "for match in matches"; fails: per match, which channel.send
\* raises
RECURSIVE repost_rows(_, _, _)
repost_rows(d, S, fails) ==
    IF S = {} THEN d
    ELSE LET m == CHOOSE x \in S : TRUE
             d1 == save_vote_message(d, m, MsgId)
             d2 == save_live_predictions_message(d1, m, MsgId)
         IN  repost_rows(CASE fails[m] = "first" -> d
                           [] fails[m] = "second" -> d1
                           [] OTHER -> d2,
                         S \ {m}, fails)

\* /repostmatches; admin: guild_permissions.administrator
repostmatches_command(P, admin) ==
    /\ Quiescent(P)
    /\ LET matches == upcoming_posted(db) IN
       IF ~admin
       THEN /\ last' = Reply("repost", "none", "none", "none", "admin only", "none")
            /\ UNCHANGED <<db, chat>>
       ELSE IF matches = {}
       THEN /\ last' = Reply("repost", "none", "none", "none", "none found", "none")
            /\ UNCHANGED <<db, chat>>
       ELSE \E fails \in [matches -> PostFails] :
               /\ db' = repost_rows(db, matches, fails)
               /\ chat' = [m \in Matches |->
                             IF m \in matches /\ fails[m] # "first"
                             THEN SendVoteMessage(chat[m]) ELSE chat[m]]
               /\ last' = Reply("repost", "none", "none", "none", "reposted", "none")
    /\ UNCHANGED <<now, poll, awards>>

\* one bot process, one match, and an administrator who backfills scores
\* and reposts matches
NextStatus ==
    \/ Tick
    \/ \E m \in M1 : post_match(One, m, "none")
    \/ \E u \in U1, m \in M1, c \in Choices, name \in N1 :
          VoteButton_callback(One, u, m, c, name)
    \/ PollBegin("p1")
    \/ Fetch("p1", M1)
    \/ ProcessMatch("p1")
    \/ \E ok \in BOOLEAN : Present("p1", ok)
    \/ PollEnd("p1")
    \/ backfillscores_command(One, M1)
    \/ \E admin \in BOOLEAN : repostmatches_command(One, admin)

SpecStatus == Init /\ [][NextStatus]_vars

\* C35: once status of a row of posted_matches is FINISHED, every step
\* leaves the row in the table with status FINISHED
C35_FinishedStays ==
    [][\A m \in Matches :
          (is_match_posted(db, m) /\ db.posted_matches[m].status = "FINISHED") =>
             /\ is_match_posted(db', m)
             /\ db'.posted_matches[m].status = "FINISHED"]_vars

\* an administrator's /repostmatches or /backfillscores has run on a match
\* that the poll task had scored and stored as FINISHED
C35_FinishedThenAdmin ==
    /\ last.op \in {"repost", "backfill"}
    /\ \E m \in Matches :
          /\ is_match_processed(db, m)
          /\ is_match_posted(db, m)
          /\ db.posted_matches[m].status = "FINISHED"

\* the weekly_stats row of u, or the counts of a user without one
WeekRow(d, u) ==
    IF u \in DOMAIN d.weekly_stats THEN d.weekly_stats[u]
    ELSE [correct |-> 0, total |-> 0]

\* C36: in every state each weekly_stats row has 0 <= correct <= total, and
\* the pass that scores a match adds one to total of each user with a
\* prediction on it, one to correct of each user whose prediction is the
\* outcome, and nothing else
C36_WeeklyStats ==
    /\ [](\A u \in DOMAIN db.weekly_stats :
             /\ 0 <= db.weekly_stats[u].correct
             /\ db.weekly_stats[u].correct <= db.weekly_stats[u].total)
    /\ [][(last'.op = "process" /\ last'.reply = "scored") =>
             \A u \in Users :
                LET p == get_user_prediction(db, u, last'.match) IN
                /\ WeekRow(db', u).total
                      = WeekRow(db, u).total + (IF p # NoPrediction THEN 1 ELSE 0)
                /\ WeekRow(db', u).correct
                      = WeekRow(db, u).correct
                           + (IF p = result_map(last'.raw.winner) THEN 1 ELSE 0)]_vars

\* two matches have been scored, and a user was right on one of them and
\* wrong on the other
C36_OneOfTwo ==
    /\ db.processed_matches = Matches
    /\ \E u \in DOMAIN db.weekly_stats :
          db.weekly_stats[u] = [correct |-> 1, total |-> 2]

-----------------------------------------------------------------------------
(* send_match_notifications match by match: the await of channel.send in   *)
(* the loop body lets other handlers run before the next match             *)

MaxReminders == 2

\* the task is inside its loop
Notifying == \E m \in Matches : chat[m].pending

\* tasks.loop starts the task when it is not running:
\* matches = get_upcoming_matches_for_notification(); if not matches: return
NotifyBegin ==
    /\ ~Notifying
    /\ LET matches == get_upcoming_matches_for_notification(db) IN
       /\ chat' = [m \in Matches |-> [chat[m] EXCEPT !.pending = m \in matches]]
       /\ last' = Reply("notify", "none", "none", "none",
                        IF matches = {} THEN "nothing due" ELSE "begun", "none")
    /\ UNCHANGED <<db, now, poll, awards>>

\* the loop body for match m; ok: whether channel.send returned, which is
\* tried when the match has users without a prediction
NotifyMatch(m, ok) ==
    /\ chat[m].pending
    /\ chat[m].reminders < MaxReminders
    /\ chat' = [chat EXCEPT ![m] =
                  [@ EXCEPT !.pending = FALSE,
                            !.reminders = IF non_voters(db, m) # {} /\ ok
                                          THEN @ + 1 ELSE @]]
    /\ db' = mark_notification_sent(db, m)
    /\ last' = Reply("notify", "none", m, "none",
                     IF non_voters(db, m) = {} THEN "nobody to remind"
                     ELSE IF ok THEN "sent" ELSE "failed", "none")
    /\ UNCHANGED <<now, poll, awards>>

\* one bot process with its notification task, two matches, and a user who
\* votes on either
NextNotify ==
    \/ Tick
    \/ \E m \in Matches : post_match(One, m, "none")
    \/ \E u \in U1, m \in Matches, c \in Choices, name \in N1 :
          VoteButton_callback(One, u, m, c, name)
    \/ NotifyBegin
    \/ \E m \in Matches, ok \in BOOLEAN : NotifyMatch(m, ok)
    \/ PollBegin("p1")
    \/ Fetch("p1", M1)
    \/ ProcessMatch("p1")
    \/ \E ok \in BOOLEAN : Present("p1", ok)
    \/ PollEnd("p1")

SpecNotify == Init /\ [][NextNotify]_vars

\* C37: at most one reminder of a match is ever in the channel, a match
\* whose notification_sent is set is not selected again, and no step takes
\* the mark back
C37_RemindedOnce ==
    /\ [](\A m \in Matches :
             /\ chat[m].reminders <= 1
             /\ (is_match_posted(db, m) /\ db.posted_matches[m].notification_sent)
                   => m \notin get_upcoming_matches_for_notification(db))
    /\ [][\A m \in Matches :
             (is_match_posted(db, m) /\ db.posted_matches[m].notification_sent) =>
                /\ is_match_posted(db', m)
                /\ db'.posted_matches[m].notification_sent
                /\ chat'[m].reminders = chat[m].reminders]_vars

\* the task has run again inside the window of a match it had reminded of:
\* the reminder is in the channel, the mark is set, and nothing was due
C37_SecondRun ==
    /\ last.op = "notify"
    /\ last.reply = "nothing due"
    /\ \E m \in Matches :
          /\ chat[m].reminders = 1
          /\ db.posted_matches[m].notification_sent
          /\ db.posted_matches[m].match_time >= now + 10
          /\ db.posted_matches[m].match_time <= now + 15
====
